---- MODULE Spec2Model ----
(***************************************************************************)
(* Model of NotifsInHandler                                                *)
(* (client/network/src/protocol/generic_proto/handler/notif_in.rs): the    *)
(* per-connection handler of one inbound notifications substream.          *)
(*                                                                         *)
(* Handler fields: substream, pending_accept_refuses, events_queue.        *)
(* Environment: the negotiated substreams (identified by the order of      *)
(* their negotiation), the outcome of polling the held substream, and the  *)
(* Accept/Refuse messages of the engine.                                   *)
(* History variables (not fields of the handler):                          *)
(*   negotiated  number of inbound substreams negotiated so far            *)
(*   handshake   per substream, the payloads given to send_handshake       *)
(*   generated   the output events in the order the handler produced them  *)
(*   returned    the output events in the order poll returned them         *)
(*   decisions   the Accept/Refuse messages received, each with the value  *)
(*               of the counter before it, the number of events returned   *)
(*               before it and the substream held when it arrived          *)
(*   last        the most recent call and what it returned                 *)
(*                                                                         *)
(* Second part: the rolling window module (srml/rolling-window/src/lib.rs) *)
(* with its storage MisbehaviorReports and BondingUniqueness; history      *)
(* variables seen_footprints (footprints given to report_misbehavior so    *)
(* far) and rw_last (the most recent call and its result).  A SessionIndex *)
(* (u32) is a pair <<high, low>> of 16-bit halves, so that arithmetic      *)
(* modulo 2^32 stays exact.                                                *)
(***************************************************************************)
EXTENDS Integers, Sequences, FiniteSets, TLC

\* ---------------------------------------------------------------- bounds
\* number of inbound substreams the connection layer negotiates
MaxSubs == 3
\* number of Accept/Refuse messages the engine sends
MaxDecisions == 2
\* number of events poll returns
MaxReturned == 4

\* number of distinct footprints (hashes) reported to the rolling window
MaxFootprints == 2

\* ---------------------------------------------------------------- values
\* Option::None of `substream`; negotiated substreams are 1, 2, ...
None == 0
SubIds == 1..MaxSubs
\* handshake payloads of Accept(Vec<u8>)
Payloads == {"hi", "yo"}
\* application messages read from a substream (BytesMut)
Msgs == {"m1"}
NoMsg == "-"

\* NotifsInHandlerIn
Accept(p) == [kind |-> "Accept", payload |-> p]
Refuse == [kind |-> "Refuse", payload |-> NoMsg]
NotifsInHandlerIn == {Accept(p) : p \in Payloads} \cup {Refuse}

\* NotifsInHandlerOut; `sub` is a history tag naming the substream the event
\* was produced for (the Rust events carry no such field)
OpenRequest(s) == [ev |-> "OpenRequest", sub |-> s, msg |-> NoMsg]
Closed(s) == [ev |-> "Closed", sub |-> s, msg |-> NoMsg]
Notif(s, m) == [ev |-> "Notif", sub |-> s, msg |-> m]
\* Poll::Pending
PollPending == [ev |-> "Pending", sub |-> None, msg |-> NoMsg]

\* outcome of NotificationsInSubstream::poll on the held substream:
\* Poll::Pending, Poll::Ready(Some(msg)), Poll::Ready(None)
SubstreamPoll == {[kind |-> "Pending", msg |-> NoMsg], [kind |-> "Eof", msg |-> NoMsg]}
                   \cup {[kind |-> "Msg", msg |-> m] : m \in Msgs}

VARIABLES substream, pending_accept_refuses, events_queue,
          negotiated, handshake, generated, returned, decisions, last,
          MisbehaviorReports, BondingUniqueness, seen_footprints, rw_last

handler_vars == <<substream, pending_accept_refuses, events_queue,
                  negotiated, handshake, generated, returned, decisions, last>>

rw_vars == <<MisbehaviorReports, BondingUniqueness, seen_footprints, rw_last>>

vars == <<handler_vars, rw_vars>>

\* the handler's fields as one value (`self`)
Self == [substream |-> substream,
         pending_accept_refuses |-> pending_accept_refuses,
         events_queue |-> events_queue]

\* ---------------------------------------------------------------- helpers
\* variant of checked_sub: saturating_sub, which never reports underflow
saturating_sub(a, b) == [some |-> TRUE, v |-> IF a >= b THEN a - b ELSE 0]

\* variant of checked_sub: the comparison is strict
checked_sub_strict(a, b) == IF a > b THEN [some |-> TRUE, v |-> a - b]
                            ELSE [some |-> FALSE, v |-> 0]

\* usize::checked_sub
checked_sub(a, b) == IF a >= b THEN [some |-> TRUE, v |-> a - b]
                     ELSE [some |-> FALSE, v |-> 0]

\* variant of is_duplicate: the check for a held substream is missing
never_duplicate(self) == FALSE

\* notif_in.rs:162  `if self.substream.is_some()`
is_duplicate(self) == self.substream # None

\* variants of is_obsolete: the check is missing; the check is off by one
never_obsolete(self) == FALSE
obsolete_above_one(self) == self.pending_accept_refuses > 1

\* notif_in.rs:193  `if self.pending_accept_refuses != 0 { return; }`
is_obsolete(self) == self.pending_accept_refuses # 0

\* variant of handshake_message: a fixed status message is sent
fixed_handshake_message(message) == "hi"

\* notif_in.rs:198  the argument given to sub.send_handshake
handshake_message(message) == message.payload

\* ---------------------------------------------------------------- handler
\* into_handler: the freshly built handler
into_handler == [substream |-> None,
                 pending_accept_refuses |-> 0,
                 events_queue |-> <<>>]

\* variant of inject_fully_negotiated_inbound: the counter is not incremented
inbound_no_increment(self, proto) ==
    IF is_duplicate(self)
    THEN self
    ELSE [substream |-> proto,
          events_queue |-> Append(self.events_queue, OpenRequest(proto)),
          pending_accept_refuses |-> self.pending_accept_refuses]

\* inject_fully_negotiated_inbound(&mut self, proto)
inject_fully_negotiated_inbound(self, proto) ==
    IF is_duplicate(self)
    THEN self
    ELSE [substream |-> proto,
          events_queue |-> Append(self.events_queue, OpenRequest(proto)),
          pending_accept_refuses |-> self.pending_accept_refuses + 1]

\* variant of apply_decision: the Accept arm does not call send_handshake
apply_decision_silent_accept(self, message) ==
    IF message.kind = "Accept"
    THEN [self |-> self, sent |-> <<>>]
    ELSE [self |-> [self EXCEPT !.substream = None], sent |-> <<>>]

\* variant of apply_decision: the Refuse arm keeps the substream
apply_decision_refuse_keeps(self, message) ==
    IF message.kind = "Accept"
    THEN IF self.substream # None
         THEN [self |-> self,
               sent |-> <<[sub |-> self.substream, payload |-> handshake_message(message)]>>]
         ELSE [self |-> self, sent |-> <<>>]
    ELSE [self |-> self, sent |-> <<>>]

\* the match of inject_event: result is the handler and the send_handshake
\* calls made (pairs of substream and payload)
apply_decision(self, message) ==
    IF message.kind = "Accept"
    THEN IF self.substream # None
         THEN [self |-> self,
               sent |-> <<[sub |-> self.substream, payload |-> handshake_message(message)]>>]
         ELSE [self |-> self, sent |-> <<>>]
    ELSE [self |-> [self EXCEPT !.substream = None], sent |-> <<>>]

\* inject_event(&mut self, message)
inject_event(self, message) ==
    LET r == checked_sub(self.pending_accept_refuses, 1) IN
    IF ~r.some
    THEN [self |-> self, sent |-> <<>>]
    ELSE LET s1 == [self EXCEPT !.pending_accept_refuses = r.v] IN
         IF is_obsolete(s1)
         THEN [self |-> s1, sent |-> <<>>]
         ELSE apply_decision(s1, message)

\* connection_keep_alive(&self): TRUE is KeepAlive::Yes
connection_keep_alive(self) == self.substream # None

\* variant of poll: the queue is popped from the back
poll_pop_back(self, r) ==
    IF self.events_queue # <<>>
    THEN [self |-> [self EXCEPT !.events_queue = SubSeq(@, 1, Len(@) - 1)],
          ret |-> self.events_queue[Len(self.events_queue)], advanced |-> FALSE]
    ELSE IF self.substream = None
    THEN [self |-> self, ret |-> PollPending, advanced |-> FALSE]
    ELSE IF r.kind = "Msg"
    THEN [self |-> self, ret |-> Notif(self.substream, r.msg), advanced |-> TRUE]
    ELSE IF r.kind = "Eof"
    THEN [self |-> [self EXCEPT !.substream = None],
          ret |-> Closed(self.substream), advanced |-> TRUE]
    ELSE [self |-> self, ret |-> PollPending, advanced |-> TRUE]

\* variant of poll: end of stream also resets the counter
poll_closed_resets_counter(self, r) ==
    IF self.events_queue # <<>>
    THEN [self |-> [self EXCEPT !.events_queue = Tail(self.events_queue)],
          ret |-> Head(self.events_queue), advanced |-> FALSE]
    ELSE IF self.substream = None
    THEN [self |-> self, ret |-> PollPending, advanced |-> FALSE]
    ELSE IF r.kind = "Msg"
    THEN [self |-> self, ret |-> Notif(self.substream, r.msg), advanced |-> TRUE]
    ELSE IF r.kind = "Eof"
    THEN [self |-> [self EXCEPT !.substream = None, !.pending_accept_refuses = 0],
          ret |-> Closed(self.substream), advanced |-> TRUE]
    ELSE [self |-> self, ret |-> PollPending, advanced |-> TRUE]

\* variant of poll: end of stream does not drop the substream
poll_closed_keeps_substream(self, r) ==
    IF self.events_queue # <<>>
    THEN [self |-> [self EXCEPT !.events_queue = Tail(self.events_queue)],
          ret |-> Head(self.events_queue), advanced |-> FALSE]
    ELSE IF self.substream = None
    THEN [self |-> self, ret |-> PollPending, advanced |-> FALSE]
    ELSE IF r.kind = "Msg"
    THEN [self |-> self, ret |-> Notif(self.substream, r.msg), advanced |-> TRUE]
    ELSE IF r.kind = "Eof"
    THEN [self |-> self, ret |-> Closed(self.substream), advanced |-> TRUE]
    ELSE [self |-> self, ret |-> PollPending, advanced |-> TRUE]

\* poll(&mut self, cx); r is what the held substream's poll yields if it is
\* polled.  advanced tells whether the substream was polled.
poll(self, r) ==
    IF self.events_queue # <<>>
    THEN [self |-> [self EXCEPT !.events_queue = Tail(self.events_queue)],
          ret |-> Head(self.events_queue), advanced |-> FALSE]
    ELSE IF self.substream = None
    THEN [self |-> self, ret |-> PollPending, advanced |-> FALSE]
    ELSE IF r.kind = "Msg"
    THEN [self |-> self, ret |-> Notif(self.substream, r.msg), advanced |-> TRUE]
    ELSE IF r.kind = "Eof"
    THEN [self |-> [self EXCEPT !.substream = None],
          ret |-> Closed(self.substream), advanced |-> TRUE]
    ELSE [self |-> self, ret |-> PollPending, advanced |-> TRUE]

\* ---------------------------------------------------------------- rolling window
\* SessionIndex = u32, as <<high, low>> with 16-bit halves
Half == 65536
u32_max == <<Half - 1, Half - 1>>

\* variant of wrapping_sub: saturating_sub, 0 on underflow
u32_saturating_sub(a, b) ==
    IF a[1] < b[1] \/ (a[1] = b[1] /\ a[2] < b[2])
    THEN <<0, 0>>
    ELSE LET lo == a[2] - b[2]
             borrow == IF lo < 0 THEN 1 ELSE 0
         IN <<(a[1] - b[1] - borrow) % Half, lo % Half>>

\* u32::wrapping_sub
wrapping_sub(a, b) ==
    LET lo == a[2] - b[2]
        borrow == IF lo < 0 THEN 1 ELSE 0
    IN <<(a[1] - b[1] - borrow) % Half, lo % Half>>

\* `<` on u32
u32_lt(a, b) == a[1] < b[1] \/ (a[1] = b[1] /\ a[2] < b[2])

\* the kinds used by the tests, with the window lengths the tests fix:
\* Kind::Two has 3 sessions (it_works), Kind::Four has u32::max_value()
\* (rolling_window_wrapped)
Kinds == {"Two", "Four"}
window_length(kind) == IF kind = "Two" THEN <<0, 3>> ELSE u32_max

\* footprints (T::Hash) and the session indices given to the module
Footprints == 1..MaxFootprints
Sessions == {<<0, 0>>, <<0, 1>>, <<0, 2>>, <<0, 3>>, u32_max}

\* the storage of the module as one value
Store_RW == [MisbehaviorReports |-> MisbehaviorReports,
             BondingUniqueness |-> BondingUniqueness]

\* get_misbehaviors(kind)
get_misbehaviors(st, kind) == Len(st.MisbehaviorReports[kind])

\* report_misbehavior(kind, footprint, current_session)
report_misbehavior(st, kind, footprint, current_session) ==
    IF footprint \in DOMAIN st.BondingUniqueness
    THEN [st |-> st, ret |-> "Err"]
    ELSE [st |-> [BondingUniqueness |->
                      (footprint :> current_session) @@ st.BondingUniqueness,
                  MisbehaviorReports |->
                      [st.MisbehaviorReports EXCEPT ![kind] = Append(@, current_session)]],
          ret |-> "Ok"]

\* the closure given to retain in on_session_ending
in_window(kind, ending, reported_session) ==
    LET diff == wrapping_sub(ending, reported_session)
    IN u32_lt(diff, window_length(kind))

\* variant of on_session_ending: footprints expire with their reports
on_session_ending_expires_footprints(st, ending) ==
    LET kept == [kind \in Kinds |->
                   SelectSeq(st.MisbehaviorReports[kind],
                             LAMBDA rs : in_window(kind, ending, rs))]
        alive == {f \in DOMAIN st.BondingUniqueness :
                    \E kind \in Kinds : \E i \in DOMAIN kept[kind] :
                        kept[kind][i] = st.BondingUniqueness[f]}
    IN [MisbehaviorReports |-> kept,
        BondingUniqueness |-> [f \in alive |-> st.BondingUniqueness[f]]]

\* on_session_ending(ending, _applied_at)
on_session_ending(st, ending) ==
    [st EXCEPT !.MisbehaviorReports =
        [kind \in Kinds |->
           SelectSeq(st.MisbehaviorReports[kind],
                     LAMBDA reported_session : in_window(kind, ending, reported_session))]]

StoreRW(st) ==
    /\ MisbehaviorReports' = st.MisbehaviorReports
    /\ BondingUniqueness' = st.BondingUniqueness

OpRW(name, kind, footprint, session, ret) ==
    [op |-> name, kind |-> kind, footprint |-> footprint, session |-> session, ret |-> ret]

\* empty storage
InitRollingWindow ==
    /\ MisbehaviorReports = [kind \in Kinds |-> <<>>]
    /\ BondingUniqueness = << >>
    /\ seen_footprints = {}
    /\ rw_last = OpRW("new", "-", 0, <<0, 0>>, "-")

ReportMisbehavior ==
    /\ \E kind \in Kinds, footprint \in Footprints, current_session \in Sessions :
         LET res == report_misbehavior(Store_RW, kind, footprint, current_session) IN
         /\ StoreRW(res.st)
         /\ seen_footprints' = seen_footprints \cup {footprint}
         /\ rw_last' = OpRW("report_misbehavior", kind, footprint, current_session, res.ret)
    /\ UNCHANGED handler_vars

OnSessionEnding ==
    /\ \E ending \in Sessions :
         /\ StoreRW(on_session_ending(Store_RW, ending))
         /\ rw_last' = OpRW("on_session_ending", "-", 0, ending, "-")
    /\ UNCHANGED <<seen_footprints, handler_vars>>

NextRW == ReportMisbehavior \/ OnSessionEnding

\* ---------------------------------------------------------------- state machine
Store(self) ==
    /\ substream' = self.substream
    /\ pending_accept_refuses' = self.pending_accept_refuses
    /\ events_queue' = self.events_queue

Op(name, ret, adv) == [op |-> name, ret |-> ret, advanced |-> adv]

Init ==
    /\ substream = into_handler.substream
    /\ pending_accept_refuses = into_handler.pending_accept_refuses
    /\ events_queue = into_handler.events_queue
    /\ negotiated = 0
    /\ handshake = [s \in SubIds |-> <<>>]
    /\ generated = <<>>
    /\ returned = <<>>
    /\ decisions = <<>>
    /\ last = Op("into_handler", PollPending, FALSE)
    /\ InitRollingWindow

\* the connection layer delivers a newly negotiated inbound substream
InjectFullyNegotiatedInbound ==
    /\ negotiated < MaxSubs
    /\ LET proto == negotiated + 1
           new == inject_fully_negotiated_inbound(Self, proto) IN
       /\ Store(new)
       /\ negotiated' = proto
       /\ generated' = generated \o SubSeq(new.events_queue, Len(events_queue) + 1,
                                            Len(new.events_queue))
       /\ last' = Op("inject_fully_negotiated_inbound", PollPending, FALSE)
    /\ UNCHANGED <<handshake, returned, decisions>>
    /\ UNCHANGED rw_vars

\* inject_event is called with Accept(payload) or Refuse
InjectEventCall ==
    /\ \E message \in NotifsInHandlerIn :
         LET res == inject_event(Self, message) IN
         /\ Store(res.self)
         /\ handshake' = IF res.sent = <<>> THEN handshake
                         ELSE [handshake EXCEPT ![res.sent[1].sub] =
                                   Append(@, res.sent[1].payload)]
         /\ decisions' = Append(decisions, [msg |-> message,
                                            before |-> pending_accept_refuses,
                                            at |-> Len(returned),
                                            sub |-> substream])
         /\ generated' = generated \o SubSeq(res.self.events_queue, Len(events_queue) + 1,
                                              Len(res.self.events_queue))
         /\ last' = Op("inject_event", PollPending, FALSE)
    /\ UNCHANGED <<negotiated, returned>>
    /\ UNCHANGED rw_vars

\* the engine sends Accept(payload) or Refuse, whenever it likes
InjectEvent ==
    /\ Len(decisions) < MaxDecisions
    /\ InjectEventCall

\* poll is called
PollCall ==
    /\ \E r \in SubstreamPoll :
         LET res == poll(Self, r) IN
         /\ Store(res.self)
         /\ returned' = IF res.ret = PollPending THEN returned
                        ELSE Append(returned, res.ret)
         /\ generated' = IF res.ret = PollPending \/ events_queue # <<>> THEN generated
                         ELSE Append(generated, res.ret)
         /\ last' = Op("poll", res.ret, res.advanced)
    /\ UNCHANGED <<negotiated, handshake, decisions>>
    /\ UNCHANGED rw_vars

\* the connection layer polls the handler
Poll ==
    /\ Len(returned) < MaxReturned
    /\ PollCall

Next == InjectFullyNegotiatedInbound \/ InjectEvent \/ Poll

Spec == Init /\ [][Next]_vars

\* the rolling window module on its own
SpecRW == Init /\ [][NextRW]_vars

\* ---------------------------------------------------------------- answering engine
\* The engine of the doc comment of OpenRequest (notif_in.rs:121-125): it sends
\* one Accept/Refuse for each OpenRequest, after poll has returned it.
NumReturnedOpenRequests ==
    Cardinality({i \in DOMAIN returned : returned[i].ev = "OpenRequest"})

EngineAnswer ==
    /\ Len(decisions) < NumReturnedOpenRequests
    /\ InjectEventCall

\* the connection layer polls the handler; a queued event can always be taken
PollDriver ==
    /\ events_queue # <<>> \/ Len(returned) < MaxReturned
    /\ PollCall

NextEngine == InjectFullyNegotiatedInbound \/ EngineAnswer \/ PollDriver

SpecEngine == Init /\ [][NextEngine]_vars

\* the driver keeps polling and the engine answers each returned OpenRequest
SpecLive == SpecEngine /\ WF_vars(PollDriver) /\ WF_vars(EngineAnswer)

\* ---------------------------------------------------------------- properties
\* steps of the three operations, seen from a pair of states
InjectEventStep == Len(decisions') = Len(decisions) + 1
InboundStep == negotiated' = negotiated + 1
PollStep == last'.op = "poll" /\ vars' # vars
\* the message received by an InjectEventStep
Received == decisions'[Len(decisions')].msg

NumOpenRequests == Cardinality({i \in DOMAIN generated : generated[i].ev = "OpenRequest"})
NoHandshakeSent == \A s \in SubIds : handshake[s] = <<>>
HandlerUnchanged == UNCHANGED <<substream, pending_accept_refuses, events_queue,
                                handshake, generated>>

\* C1: pending_accept_refuses is never negative, and an Accept/Refuse received
\* while it is 0 changes nothing: counter stays 0, substream unchanged, no
\* handshake sent, output queue unchanged.
C1_DiscardAtZero ==
    /\ [](pending_accept_refuses >= 0)
    /\ [][(InjectEventStep /\ pending_accept_refuses = 0)
            => (pending_accept_refuses' = 0 /\ HandlerUnchanged)]_vars

C1_Witness ==
    /\ last.op = "inject_event"
    /\ decisions[Len(decisions)].before = 0
    /\ substream # None
    /\ handshake[substream] # <<>>

\* C2: an inbound upgrade completing while a substream is held changes
\* nothing (held substream, counter, queue); two back-to-back upgrades before
\* any decision leave one OpenRequest queued and the counter at 1.
C2_DuplicateDiscarded ==
    /\ [][(InboundStep /\ substream # None) => HandlerUnchanged]_vars
    /\ []((negotiated = 2 /\ decisions = <<>> /\ returned = <<>>)
            => (/\ substream = 1
                /\ pending_accept_refuses = 1
                /\ events_queue = <<OpenRequest(1)>>))

C2_Witness ==
    /\ negotiated = 2
    /\ decisions = <<>>
    /\ returned = <<>>
    /\ last.op = "inject_fully_negotiated_inbound"

\* C3: an Accept/Refuse received with the counter >= 1 decrements it by one;
\* the decision is applied exactly when the counter is then 0 (Accept: the
\* payload goes to send_handshake of the held substream, or nothing if none is
\* held; Refuse: the substream is dropped); otherwise it has no other effect.
C3_DecrementAndApply ==
    [][(InjectEventStep /\ pending_accept_refuses >= 1)
         => /\ pending_accept_refuses' = pending_accept_refuses - 1
            /\ UNCHANGED <<events_queue, generated>>
            /\ IF pending_accept_refuses' # 0
               THEN UNCHANGED <<substream, handshake>>
               ELSE IF Received.kind = "Refuse"
               THEN substream' = None /\ UNCHANGED handshake
               ELSE IF substream = None
               THEN UNCHANGED <<substream, handshake>>
               ELSE /\ substream' = substream
                    /\ handshake' = [handshake EXCEPT ![substream] =
                                         Append(@, Received.payload)]]_vars

C3_Witness ==
    /\ Len(decisions) >= 2
    /\ decisions[1].before = 2
    /\ decisions[2].before = 1
    /\ decisions[2].msg.kind = "Accept"
    /\ substream # None
    /\ handshake[substream] = <<decisions[2].msg.payload>>

\* C4 as stated: after two OpenRequests followed by exactly one Accept, the
\* handshake has been sent on the held substream.
C4_Original ==
    (/\ NumOpenRequests = 2
     /\ Len(decisions) = 1
     /\ decisions[1].before = 2
     /\ decisions[1].msg.kind = "Accept"
     /\ substream # None)
    => handshake[substream] = <<decisions[1].msg.payload>>

\* C4 amended: after two OpenRequests followed by exactly one Accept, that
\* Accept was discarded as obsolete (counter 1, no handshake sent on any
\* substream); the handshake is sent on the held substream by the second
\* decision when it is an Accept.
C4_Amended ==
    /\ (/\ NumOpenRequests = 2
        /\ Len(decisions) = 1
        /\ decisions[1].before = 2
        /\ decisions[1].msg.kind = "Accept")
       => (pending_accept_refuses = 1 /\ NoHandshakeSent)
    /\ (/\ NumOpenRequests = 2
        /\ Len(decisions) = 2
        /\ decisions[1].before = 2
        /\ decisions[2].msg.kind = "Accept"
        /\ substream # None)
       => (/\ pending_accept_refuses = 0
           /\ handshake[substream] = <<decisions[2].msg.payload>>)

C4_Witness ==
    /\ NumOpenRequests = 2
    /\ Len(decisions) = 2
    /\ decisions[1].before = 2
    /\ decisions[1].msg.kind = "Accept"
    /\ decisions[2].msg.kind = "Accept"
    /\ substream = 2
    /\ handshake[2] # <<>>

\* C5 as stated: every Accept(payload) received makes exactly one
\* send_handshake call, with that payload.
C5_Original ==
    [][(InjectEventStep /\ Received.kind = "Accept")
         => \E s \in SubIds :
              handshake' = [handshake EXCEPT ![s] = Append(@, Received.payload)]]_vars

\* C5 amended: an Accept(payload) that brings the counter from 1 to 0 while a
\* substream is held makes exactly one send_handshake call, on the held
\* substream, with the payload unchanged; any other Accept makes no call.
C5_Amended ==
    [][(InjectEventStep /\ Received.kind = "Accept")
         => IF pending_accept_refuses = 1 /\ substream # None
            THEN handshake' = [handshake EXCEPT ![substream] =
                                   Append(@, Received.payload)]
            ELSE UNCHANGED handshake]_vars

C5_Witness ==
    /\ last.op = "inject_event"
    /\ decisions[Len(decisions)].msg = Accept("yo")
    /\ decisions[Len(decisions)].before = 1
    /\ substream # None
    /\ handshake[substream] = <<"yo">>

\* C6: while a substream is held, the handshake has been sent on it if and
\* only if the counter is 0.
C6_HandshakeIffOpen ==
    substream # None
      => (handshake[substream] # <<>> <=> pending_accept_refuses = 0)

C6_Witness ==
    /\ substream = 2
    /\ pending_accept_refuses = 0
    /\ handshake[2] # <<>>
    /\ handshake[1] = <<>>

\* C7: poll returns Notif only for a held substream on which an Accept has
\* been applied: the counter is 0 and the handshake was sent on it.
C7_NotifOnlyWhenOpen ==
    (last.op = "poll" /\ last.ret.ev = "Notif")
      => (/\ substream = last.ret.sub
          /\ pending_accept_refuses = 0
          /\ handshake[substream] # <<>>)

\* C8: events are returned in the order generated; a poll with a non-empty
\* queue returns its front and does not poll the substream; the OpenRequest of
\* a substream is returned before any Notif or Closed of that substream.
C8_Ordering ==
    /\ [](returned \o events_queue = generated)
    /\ [](\A j \in DOMAIN returned :
             returned[j].ev \in {"Notif", "Closed"}
               => \E i \in 1..(j - 1) : returned[i] = OpenRequest(returned[j].sub))
    /\ [][(PollStep /\ events_queue # <<>>)
            => /\ last'.ret = Head(events_queue)
               /\ events_queue' = Tail(events_queue)
               /\ returned' = Append(returned, Head(events_queue))
               /\ ~last'.advanced
               /\ UNCHANGED <<substream, generated>>]_vars
    /\ [][(PollStep /\ events_queue = <<>>) => events_queue' = <<>>]_vars

C8_Witness ==
    /\ Len(returned) >= 4
    /\ returned[1] = OpenRequest(1)
    /\ returned[2] = OpenRequest(2)
    /\ returned[3].ev = "Notif"
    /\ returned[4] = Closed(2)

\* C9: poll never changes the counter; when the substream reports end of
\* stream poll drops it and returns Closed, the counter staying as it was.
C9_PollKeepsCounter ==
    [][PollStep
         => /\ pending_accept_refuses' = pending_accept_refuses
            /\ (last'.ret.ev = "Closed"
                  => substream = last'.ret.sub /\ substream' = None)]_vars

C9_Witness ==
    /\ last.op = "poll"
    /\ last.ret.ev = "Closed"
    /\ substream = None
    /\ pending_accept_refuses >= 1

\* C10: one inbound upgrade, OpenRequest returned, Closed returned, then a
\* late Accept with the counter at 1: no handshake is sent, the substream stays
\* absent, no event is generated and later polls return nothing.
ScenarioD ==
    /\ negotiated = 1
    /\ Len(returned) >= 2
    /\ returned[1] = OpenRequest(1)
    /\ returned[2] = Closed(1)
    /\ Len(decisions) >= 1
    /\ decisions[1].msg.kind = "Accept"
    /\ decisions[1].before = 1
    /\ decisions[1].at = 2

C10_LateAcceptNoOp ==
    ScenarioD
      => (/\ substream = None
          /\ pending_accept_refuses = 0
          /\ NoHandshakeSent
          /\ events_queue = <<>>
          /\ generated = <<OpenRequest(1), Closed(1)>>
          /\ returned = generated
          /\ ~connection_keep_alive(Self))

C10_Witness ==
    /\ ScenarioD
    /\ last.op = "poll"
    /\ last.ret = PollPending

\* a Refuse that brought the counter to 0 while a substream was held
Refused(i) ==
    /\ decisions[i].msg.kind = "Refuse"
    /\ decisions[i].before = 1
    /\ decisions[i].sub # None

RefuseDropsSubstream ==
    [][(InjectEventStep /\ Received.kind = "Refuse" /\ pending_accept_refuses = 1)
         => /\ substream' = None
            /\ pending_accept_refuses' = 0
            /\ ~connection_keep_alive([substream |-> substream'])]_vars

\* C11 as stated: a Refuse that brings the counter to 0 drops the substream
\* (keep-alive No), and later polls return no event at all for the refused
\* substream.
C11_Original ==
    /\ RefuseDropsSubstream
    /\ [](\A i \in DOMAIN decisions : Refused(i)
            => \A j \in DOMAIN returned :
                 j > decisions[i].at => returned[j].sub # decisions[i].sub)

\* C11 amended: a Refuse that brings the counter to 0 drops the substream
\* (keep-alive No), and later polls return no Closed and no Notif for the
\* refused substream; the only event they can return for it is its
\* OpenRequest, when that was still queued.
C11_Amended ==
    /\ RefuseDropsSubstream
    /\ [](\A i \in DOMAIN decisions : Refused(i)
            => \A j \in DOMAIN returned :
                 (j > decisions[i].at /\ returned[j].sub = decisions[i].sub)
                   => returned[j] = OpenRequest(decisions[i].sub))

C11_Witness ==
    /\ negotiated = 1
    /\ Len(decisions) = 1
    /\ Refused(1)
    /\ decisions[1].at = 1
    /\ last.op = "poll"
    /\ last.ret = PollPending
    /\ ~connection_keep_alive(Self)

\* C12 as stated: right after a poll that returns Closed there is no
\* substream and the counter is 0, and every state without a substream has the
\* counter at 0 (Idle).
C12_Original ==
    /\ (last.op = "poll" /\ last.ret.ev = "Closed")
         => (substream = None /\ pending_accept_refuses = 0)
    /\ substream = None => pending_accept_refuses = 0

\* C12 amended: right after a poll that returns Closed there is no substream,
\* and the counter is 0 exactly when the handshake had been sent on the closed
\* substream; otherwise the handler has no substream and a counter >= 1.
C12_Amended ==
    (last.op = "poll" /\ last.ret.ev = "Closed")
      => /\ substream = None
         /\ pending_accept_refuses >= 0
         /\ pending_accept_refuses = 0 <=> handshake[last.ret.sub] # <<>>

C12_Witness ==
    /\ last.op = "poll"
    /\ last.ret.ev = "Closed"
    /\ substream = None
    /\ pending_accept_refuses = 0
    /\ handshake[last.ret.sub] # <<>>

\* C13 as stated: the counter is the number of OpenRequests generated minus
\* the number of Accept/Refuse messages received.
C13_Original ==
    pending_accept_refuses = NumOpenRequests - Len(decisions)

\* C13 amended: the counter is the number of OpenRequests generated minus the
\* number of Accept/Refuse messages received while the counter was >= 1.
C13_Amended ==
    pending_accept_refuses =
        NumOpenRequests - Cardinality({i \in DOMAIN decisions : decisions[i].before >= 1})

C13_Witness ==
    /\ Len(decisions) = 2
    /\ decisions[1].before = 0
    /\ decisions[2].before = 1
    /\ NumOpenRequests = 2
    /\ pending_accept_refuses = 1

AwaitingDecision == substream # None /\ pending_accept_refuses >= 1

\* C14 as stated: without Accept/Refuse, a handler awaiting a decision keeps
\* its substream and a counter >= 1 under polls and inbound upgrades.
C14_Original ==
    [][(AwaitingDecision /\ ~InjectEventStep)
         => (substream' # None /\ pending_accept_refuses' >= 1)]_vars

\* C14 amended: without Accept/Refuse, a handler awaiting a decision keeps its
\* counter, and keeps its substream unless a poll returns Closed for it.
C14_Amended ==
    [][(AwaitingDecision /\ ~InjectEventStep)
         => /\ pending_accept_refuses' = pending_accept_refuses
            /\ \/ substream' = substream
               \/ /\ PollStep
                  /\ last'.ret = Closed(substream)
                  /\ substream' = None]_vars

C14_Witness ==
    /\ decisions = <<>>
    /\ negotiated = 2
    /\ pending_accept_refuses = 1
    /\ substream = None
    /\ last.op = "poll"
    /\ last.ret = Closed(1)

\* C17: send_handshake is called at most once on any negotiated substream and
\* never on one that was discarded as a duplicate (one for which no
\* OpenRequest was generated).
C17_HandshakeAtMostOnce ==
    \A s \in SubIds :
       /\ Len(handshake[s]) <= 1
       /\ handshake[s] # <<>> => \E i \in DOMAIN generated : generated[i] = OpenRequest(s)

C17_Witness ==
    /\ negotiated >= 2
    /\ substream = 1
    /\ Len(handshake[1]) = 1
    /\ Len(decisions) = 2
    /\ decisions[2].before = 0
    /\ decisions[2].msg.kind = "Accept"
    /\ NumOpenRequests = 1

\* the substream of the most recently generated OpenRequest
LastOpenRequestSub ==
    LET I == {i \in DOMAIN generated : generated[i].ev = "OpenRequest"}
    IN generated[CHOOSE i \in I : \A j \in I : j <= i].sub

\* C18 (answering engine): a decision that is applied (it takes the counter
\* to 0, sends a handshake or drops the substream) is the answer to the most
\* recently generated OpenRequest, and the substream held, if any, is the one
\* that OpenRequest was generated for.
C18_AppliedToItsSubstream ==
    [][(/\ InjectEventStep
        /\ \/ pending_accept_refuses = 1
           \/ handshake' # handshake
           \/ substream' # substream)
         => /\ Len(decisions') = NumOpenRequests
            /\ substream # None => substream = LastOpenRequestSub]_vars

C18_Witness ==
    /\ Len(decisions) = 2
    /\ decisions[1].before = 2
    /\ decisions[2].before = 1
    /\ decisions[2].sub = 2
    /\ returned[2] = Closed(1)
    /\ handshake[2] # <<>>
    /\ handshake[1] = <<>>

\* C19 (answering engine): a non-empty output queue holds exactly one event,
\* an OpenRequest, for the substream that is held; so keep-alive is Yes
\* whenever an event is queued.
C19_QueueAtMostOne ==
    events_queue # <<>>
      => /\ Len(events_queue) = 1
         /\ substream # None
         /\ events_queue[1] = OpenRequest(substream)
         /\ connection_keep_alive(Self)

C19_Witness ==
    /\ events_queue = <<OpenRequest(2)>>
    /\ substream = 2
    /\ pending_accept_refuses = 2
    /\ returned = <<OpenRequest(1), Closed(1)>>

\* C20 (answering engine, driver that keeps polling): eventually the output
\* queue is empty and the counter is 0, for good; every queued OpenRequest is
\* eventually returned by poll.
C20_Quiescence ==
    /\ <>[](events_queue = <<>> /\ pending_accept_refuses = 0)
    /\ \A s \in SubIds :
         (\E i \in DOMAIN events_queue : events_queue[i] = OpenRequest(s))
           ~> (\E j \in DOMAIN returned : returned[j] = OpenRequest(s))

C20_Witness ==
    /\ NumOpenRequests = 2
    /\ NumReturnedOpenRequests = 2
    /\ Len(decisions) = 2
    /\ events_queue = <<>>
    /\ pending_accept_refuses = 0

\* u32 successor, wrapping
u32_succ(a) == IF a[2] = Half - 1 THEN <<(a[1] + 1) % Half, 0>> ELSE <<a[1], a[2] + 1>>

ReportStep == rw_last'.op = "report_misbehavior"
EndingStep == rw_last'.op = "on_session_ending"

\* C15 (rolling window): report_misbehavior returns Ok and adds one report
\* for the kind the first time a footprint is reported; with a footprint
\* reported before it returns Err and changes neither MisbehaviorReports nor
\* BondingUniqueness, whatever the kind, the session and the on_session_ending
\* calls in between.
C15_FootprintUnique ==
    [][ReportStep
         => IF rw_last'.footprint \in seen_footprints
            THEN /\ rw_last'.ret = "Err"
                 /\ UNCHANGED <<MisbehaviorReports, BondingUniqueness>>
            ELSE /\ rw_last'.ret = "Ok"
                 /\ MisbehaviorReports' =
                       [MisbehaviorReports EXCEPT ![rw_last'.kind] =
                            Append(@, rw_last'.session)]
                 /\ DOMAIN BondingUniqueness' =
                       DOMAIN BondingUniqueness \cup {rw_last'.footprint}]_vars

C15_Witness ==
    /\ rw_last.op = "report_misbehavior"
    /\ rw_last.ret = "Err"
    /\ rw_last.kind = "Four"
    /\ rw_last.footprint = 1
    /\ MisbehaviorReports = [kind \in Kinds |-> <<>>]
    /\ BondingUniqueness[1] = <<0, 0>>

\* session s is within window_length(kind) sessions before ending, counting
\* sessions forward from s modulo 2^32
StillInWindow(kind, ending, s) ==
    IF kind = "Two"
    THEN ending \in {s, u32_succ(s), u32_succ(u32_succ(s))}
    ELSE u32_succ(ending) # s

\* C16 (rolling window): on_session_ending(ending) keeps, for every kind,
\* exactly the stored reports whose session s has (ending - s) mod 2^32 <
\* window_length(kind), across the wrap of the session index.
C16_WindowWraps ==
    [][EndingStep
         => /\ \A kind \in Kinds :
                 MisbehaviorReports'[kind] =
                    SelectSeq(MisbehaviorReports[kind],
                              LAMBDA s : StillInWindow(kind, rw_last'.session, s))
            /\ UNCHANGED BondingUniqueness]_vars

C16_Witness ==
    /\ rw_last.op = "on_session_ending"
    /\ rw_last.session = <<0, 1>>
    /\ MisbehaviorReports["Two"] = <<u32_max>>
    /\ MisbehaviorReports["Four"] = <<>>
    /\ DOMAIN BondingUniqueness = {1, 2}

====
